---- MODULE Spec2Model ----
(***************************************************************************)
(* Model of scrawling_ML/merge_results.py: the field normalizers, the      *)
(* fingerprint, the listing builder normalize_listing and the merge /      *)
(* dedup loop of merge_files; and of spiders/kijiji_spider.py: the title   *)
(* parser, the listing normalizer, fetch_page and the concurrent crawl.    *)
(*                                                                         *)
(* Python strings are sequences of one-character strings.  A JSON / Python *)
(* value is a record tagged by t: "null" (None), "str", "num", "list".     *)
(* A dict (raw listing, source file, OrderedDict, extra) is a sequence of  *)
(* [k, v] pairs with distinct keys, in insertion order.                    *)
(***************************************************************************)
EXTENDS Integers, Sequences, FiniteSets, TLC

\* ------------------------------------------------------------------ bounds
MaxA == 2
MaxK == 1
MaxKeys == 2
MaxStr == 4
MaxLoc == 5
\* words of a title, details of a card, pages of a crawl, cards of a page
MaxWords == 3
MaxDetails == 2
MaxPages == 2
MaxCards == 1

\* ------------------------------------------------------------ Python values
None == [t |-> "null"]
Str(s) == [t |-> "str", s |-> s]
Num(n) == [t |-> "num", n |-> n]
List(items) == [t |-> "list", items |-> items]
Dict(d) == [t |-> "dict", d |-> d]

\* bool(v): None, "", 0, [] and {} are falsy
Truthy(v) ==
  CASE v.t = "null" -> FALSE
    [] v.t = "str"  -> v.s # <<>>
    [] v.t = "num"  -> v.n # 0
    [] v.t = "list" -> v.items # <<>>
    [] v.t = "dict" -> v.d # <<>>

\* the mutant of PyOr: falls through on None only, not on every falsy value
PyOrNoneOnly(x, y) == IF x.t # "null" THEN x ELSE y

\* x or y
PyOr(x, y) == IF Truthy(x) THEN x ELSE y

\* d.get(key) on a dict held as a sequence of [k, v] pairs
Get(d, key) ==
  IF \E i \in 1..Len(d) : d[i].k = key
  THEN d[CHOOSE i \in 1..Len(d) : d[i].k = key].v
  ELSE None

HasKey(d, key) == \E i \in 1..Len(d) : d[i].k = key

\* ------------------------------------------------------- character classes
UpperLetters ==
  <<"A", "B", "C", "D", "E", "F", "G", "H", "I", "J", "K", "L", "M",
    "N", "O", "P", "Q", "R", "S", "T", "U", "V", "W", "X", "Y", "Z">>
LowerLetters ==
  <<"a", "b", "c", "d", "e", "f", "g", "h", "i", "j", "k", "l", "m",
    "n", "o", "p", "q", "r", "s", "t", "u", "v", "w", "x", "y", "z">>
DigitChars == <<"0", "1", "2", "3", "4", "5", "6", "7", "8", "9">>

InSeq(c, s) == \E i \in 1..Len(s) : s[i] = c
IndexOf(c, s) == CHOOSE i \in 1..Len(s) : s[i] = c

IsUpper(c) == InSeq(c, UpperLetters)
IsLower(c) == InSeq(c, LowerLetters)
IsLetter(c) == IsUpper(c) \/ IsLower(c)
\* \d
IsDigit(c) == InSeq(c, DigitChars)
\* \s, and the characters str.strip() removes
IsSpace(c) == c \in {" ", "\t"}
\* \w : letters, digits and the underscore
IsWord(c) == IsLetter(c) \/ IsDigit(c) \/ c = "_"

LowerChar(c) == IF IsUpper(c) THEN LowerLetters[IndexOf(c, UpperLetters)] ELSE c
UpperChar(c) == IF IsLower(c) THEN UpperLetters[IndexOf(c, LowerLetters)] ELSE c

\* ------------------------------------------------------------ str methods
\* str.lower()
str_lower(s) == [i \in 1..Len(s) |-> LowerChar(s[i])]

RECURSIVE LStrip(_)
LStrip(s) == IF s # <<>> /\ IsSpace(Head(s)) THEN LStrip(Tail(s)) ELSE s

RECURSIVE RStrip(_)
RStrip(s) ==
  IF s # <<>> /\ IsSpace(s[Len(s)]) THEN RStrip(SubSeq(s, 1, Len(s) - 1)) ELSE s

\* str.strip()
str_strip(s) == RStrip(LStrip(s))

\* str.title(): a letter that follows a letter is lowered, any other letter
\* is raised
str_title(s) ==
  [i \in 1..Len(s) |->
     IF i > 1 /\ IsLetter(s[i - 1]) THEN LowerChar(s[i]) ELSE UpperChar(s[i])]

\* re.sub(r"\s+", " ", s)
RECURSIVE CollapseSpaces(_)
CollapseSpaces(s) ==
  IF s = <<>> THEN <<>>
  ELSE IF IsSpace(Head(s))
       THEN <<" ">> \o CollapseSpaces(LStrip(s))
       ELSE <<Head(s)>> \o CollapseSpaces(Tail(s))

\* the text of a character sequence, as one string
RECURSIVE Text(_)
Text(s) == IF s = <<>> THEN "" ELSE Head(s) \o Text(Tail(s))

\* str(n) for an integer n, as a character sequence
RECURSIVE NatChars(_)
NatChars(n) ==
  IF n < 10 THEN <<DigitChars[n + 1]>>
  ELSE NatChars(n \div 10) \o <<DigitChars[(n % 10) + 1]>>

IntChars(n) == IF n < 0 THEN <<"-">> \o NatChars(0 - n) ELSE NatChars(n)

\* str(v) for a value that is a string or an integer
PyStr(v) == IF v.t = "str" THEN v.s ELSE IntChars(v.n)

\* int(s) for a non-empty sequence of digits
RECURSIVE DigitsValue(_)
DigitsValue(s) ==
  IF s = <<>> THEN 0
  ELSE 10 * DigitsValue(SubSeq(s, 1, Len(s) - 1)) + (IndexOf(s[Len(s)], DigitChars) - 1)

AllDigits(s) == s # <<>> /\ \A i \in 1..Len(s) : IsDigit(s[i])

\* unicodedata.normalize("NFKC", s): every ASCII character is its own
\* normal form; the spacing diaeresis U+00A8 (written "~:" here) has the
\* compatibility decomposition <space, combining diaeresis U+0308 ("~.")>
RECURSIVE NFKC(_)
NFKC(s) ==
  IF s = <<>> THEN <<>>
  ELSE (IF Head(s) = "~:" THEN <<" ", "~.">> ELSE <<Head(s)>>) \o NFKC(Tail(s))

\* ------------------------------------------------------------- normalizers
\* the mutant of normalize_text: the strip() of line 17 is left out
normalize_textNoStrip(v) ==
  IF v.t = "null" THEN None ELSE Str(NFKC(PyStr(v)))

\* normalize_text(s)
normalize_text(v) ==
  IF v.t = "null" THEN None ELSE Str(NFKC(str_strip(PyStr(v))))

\* int(s2) succeeds exactly on an optional minus sign followed by digits
IsIntLiteral(s) ==
  \/ AllDigits(s)
  \/ s # <<>> /\ Head(s) = "-" /\ AllDigits(Tail(s))

IntValue(s) ==
  IF Head(s) = "-" THEN 0 - DigitsValue(Tail(s)) ELSE DigitsValue(s)

\* the mutant of IsDigitOrMinus: the minus sign is removed too
IsDigitOnly(c) == IsDigit(c)

IsDigitOrMinus(c) == IsDigit(c) \/ c = "-"

\* parse_int(v); the ValueError of int() is caught and gives None
parse_int(v) ==
  IF v.t = "null" THEN None
  ELSE LET s2 == SelectSeq(PyStr(v), IsDigitOrMinus)
       IN IF s2 # <<>> /\ IsIntLiteral(s2) THEN Num(IntValue(s2)) ELSE None

IsLocDelim(c) == c \in {",", "/", "|", "-"}

\* re.split(r"[,/|-]", s): the pieces between the delimiters
RECURSIVE SplitLoc(_, _)
SplitLoc(s, cur) ==
  IF s = <<>> THEN <<cur>>
  ELSE IF IsLocDelim(Head(s))
       THEN <<cur>> \o SplitLoc(Tail(s), <<>>)
       ELSE SplitLoc(Tail(s), Append(cur, Head(s)))

NonBlank(p) == str_strip(p) # <<>>

\* ", ".join(parts)
RECURSIVE JoinComma(_)
JoinComma(parts) ==
  IF parts = <<>> THEN <<>>
  ELSE IF Len(parts) = 1 THEN parts[1]
       ELSE parts[1] \o <<",", " ">> \o JoinComma(Tail(parts))

Raised == [raised |-> TRUE, val |-> None]
Returned(v) == [raised |-> FALSE, val |-> v]

\* the mutant of canonicalize_location: every surviving part is joined
canonicalize_locationJoinAll(loc) ==
  IF ~Truthy(loc) THEN Returned(None)
  ELSE IF loc.t # "str" THEN Raised
  ELSE LET kept  == SelectSeq(SplitLoc(loc.s, <<>>), NonBlank)
           parts == [i \in 1..Len(kept) |-> str_title(str_strip(kept[i]))]
       IN IF parts = <<>> THEN Returned(None)
          ELSE Returned(Str(JoinComma(parts)))

\* canonicalize_location(loc); re.split raises TypeError when loc is a
\* truthy value that is not a string
canonicalize_location(loc) ==
  IF ~Truthy(loc) THEN Returned(None)
  ELSE IF loc.t # "str" THEN Raised
  ELSE LET kept  == SelectSeq(SplitLoc(loc.s, <<>>), NonBlank)
           parts == [i \in 1..Len(kept) |-> str_title(str_strip(kept[i]))]
       IN IF parts = <<>> THEN Returned(None)
          ELSE Returned(Str(JoinComma(SubSeq(parts, 1, IF Len(parts) < 2 THEN Len(parts) ELSE 2))))

\* ------------------------------------------------------------- fingerprint
IsWordOrSpace(c) == IsWord(c) \/ IsSpace(c)

\* re.sub(r"\s+", " ", re.sub(r"[^\w\s]", "", t)).strip()
CleanTitle(t) == str_strip(CollapseSpaces(SelectSeq(t, IsWordOrSpace)))

\* fingerprint(rec): f"{t}|{y}|{p}"
fingerprint(rec) ==
  LET t == CleanTitle(str_lower(PyOr(Get(rec, "title"), Str(<<>>)).s))
      y == PyOr(Get(rec, "year"), Str(<<>>))
      p == PyOr(Get(rec, "price"), Str(<<>>))
  IN Text(t) \o "|" \o Text(PyStr(y)) \o "|" \o Text(PyStr(p))

\* ------------------------------------------------------- normalize_listing
CanonicalKeys ==
  <<"title", "price", "mileage_km", "year", "model", "province_city",
    "link", "source", "extra">>

\* the keys line 62 leaves out of extra
ConsumedKeys ==
  {"title", "price", "mileage_km", "mileage", "year", "model",
   "province_city", "location", "link", "url"}

NotConsumed(p) == p.k \notin ConsumedKeys

Pair(key, v) == [k |-> key, v |-> v]

HasValue(p) == p.v # None

\* the mutant of Ordered: a field whose value is None is left out
OrderedSkipNull(title, price, mileage, year, model, province_city, link, source_label, extra) ==
  SelectSeq(<< Pair("title", PyOr(title, None)),
               Pair("price", price),
               Pair("mileage_km", mileage),
               Pair("year", year),
               Pair("model", PyOr(model, None)),
               Pair("province_city", PyOr(province_city, None)),
               Pair("link", PyOr(link, None)),
               Pair("source", source_label),
               Pair("extra", IF extra = <<>> THEN None ELSE Dict(extra)) >>, HasValue)

\* the OrderedDict of lines 64-74
Ordered(title, price, mileage, year, model, province_city, link, source_label, extra) ==
  << Pair("title", PyOr(title, None)),
     Pair("price", price),
     Pair("mileage_km", mileage),
     Pair("year", year),
     Pair("model", PyOr(model, None)),
     Pair("province_city", PyOr(province_city, None)),
     Pair("link", PyOr(link, None)),
     Pair("source", source_label),
     Pair("extra", IF extra = <<>> THEN None ELSE Dict(extra)) >>

\* normalize_listing(raw, source_label)
normalize_listing(raw, source_label) ==
  LET title   == normalize_text(PyOr(PyOr(Get(raw, "title"), Get(raw, "name")), Str(<<>>)))
      price   == parse_int(Get(raw, "price"))
      mileage == parse_int(PyOr(Get(raw, "mileage_km"), Get(raw, "mileage")))
      year    == parse_int(Get(raw, "year"))
      model   == normalize_text(PyOr(Get(raw, "model"), Str(<<>>)))
      loc     == canonicalize_location(
                   PyOr(PyOr(Get(raw, "province_city"), Get(raw, "location")), Get(raw, "city")))
      link    == normalize_text(PyOr(Get(raw, "link"), Get(raw, "url")))
      extra   == SelectSeq(raw, NotConsumed)
  IN IF loc.raised THEN Raised
     ELSE Returned(Ordered(title, price, mileage, year, model, loc.val, link,
                           source_label, extra))

\* ---------------------------------------------------------------- merge_files
VARIABLES
  a,            \* load_json(autotrader_path)
  k,            \* load_json(kijiji_path)
  pc,           \* position in merge_files
  listings,     \* the normalized records of both sources, in order
  idx,          \* position of the dedupe loop in listings
  seen_links,
  seen_fp,
  merged,
  out_obj,      \* the object written to out_json
  \* kijiji_spider.py and autotrader_spider.py
  spider,       \* the script that runs
  brand,        \* args.brand.lower()
  location,     \* args.location.lower()
  last_page,    \* the page count the pagination gave (num_pages in autotrader_spider.py)
  site,         \* page -> what session.get(url) answers for it
  futures,      \* page -> the state and the result of its fetch_page task
  all_cars,
  result_json,  \* the object written to outfile
  kpc           \* position of the main thread of the spider

merge_vars == <<a, k, pc, listings, idx, seen_links, seen_fp, merged, out_obj>>
spider_vars == <<spider, brand, location, last_page, site, futures, all_cars, result_json, kpc>>
vars == <<merge_vars, spider_vars>>

\* the spider is not run
SpiderIdle ==
  /\ spider = "none"
  /\ brand = <<>>
  /\ location = <<>>
  /\ last_page = 0
  /\ site = <<>>
  /\ futures = <<>>
  /\ all_cars = <<>>
  /\ result_json = None
  /\ kpc = "idle"

AUTOTRADER == <<"a", "u", "t", "o", "t", "r", "a", "d", "e", "r">>
KIJIJI == <<"k", "i", "j", "i", "j", "i">>

\* f.get("source") or default
SourceLabel(f, default) == PyOr(Get(f, "source"), Str(default))

\* f.get("listings") if isinstance(f.get("listings"), list) else []
ListingsOf(f) ==
  IF Get(f, "listings").t = "list" THEN Get(f, "listings").items ELSE <<>>

\* for item in items: listings.append(normalize_listing(item, src));
\* the first item that raises ends merge_files
RECURSIVE BuildAll(_, _)
BuildAll(items, src) ==
  IF items = <<>> THEN Returned(<<>>)
  ELSE LET r == normalize_listing(Head(items), src)
       IN IF r.raised THEN Raised
          ELSE LET rest == BuildAll(Tail(items), src)
               IN IF rest.raised THEN Raised
                  ELSE Returned(<<r.val>> \o rest.val)

\* DedupeBody without the seen_links test: a repeated link is not dropped
DedupeBodyNoLinkCheck(st, rec) ==
  LET link == Get(rec, "link")
      fp   == fingerprint(rec)
      links == IF Truthy(link) THEN st.seen_links \cup {link} ELSE st.seen_links
  IN IF fp \in st.seen_fp
     THEN [st EXCEPT !.seen_links = links]
     ELSE [seen_links |-> links,
           seen_fp    |-> st.seen_fp \cup {fp},
           merged     |-> Append(st.merged, rec)]

\* DedupeBody with the fingerprint test applied to link-less records only
DedupeBodyFpLinklessOnly(st, rec) ==
  LET link == Get(rec, "link")
      fp   == fingerprint(rec)
  IN IF Truthy(link)
     THEN IF link \in st.seen_links THEN st
          ELSE [seen_links |-> st.seen_links \cup {link},
                seen_fp    |-> st.seen_fp \cup {fp},
                merged     |-> Append(st.merged, rec)]
     ELSE IF fp \in st.seen_fp THEN st
          ELSE [st EXCEPT !.seen_fp = st.seen_fp \cup {fp},
                          !.merged = Append(st.merged, rec)]

\* DedupeBody that never records a fingerprint (seen_fp.add forgotten)
DedupeBodyNoFpAdd(st, rec) ==
  LET link == Get(rec, "link")
      fp   == fingerprint(rec)
  IN IF Truthy(link) /\ link \in st.seen_links THEN st
     ELSE LET links == IF Truthy(link) THEN st.seen_links \cup {link}
                       ELSE st.seen_links
          IN IF fp \in st.seen_fp
             THEN [st EXCEPT !.seen_links = links]
             ELSE [seen_links |-> links,
                   seen_fp    |-> st.seen_fp,
                   merged     |-> Append(st.merged, rec)]

\* DedupeBody that puts a kept record at the front (merged.insert(0, rec))
DedupeBodyPrepend(st, rec) ==
  LET link == Get(rec, "link")
      fp   == fingerprint(rec)
  IN IF Truthy(link) /\ link \in st.seen_links THEN st
     ELSE LET links == IF Truthy(link) THEN st.seen_links \cup {link}
                       ELSE st.seen_links
          IN IF fp \in st.seen_fp
             THEN [st EXCEPT !.seen_links = links]
             ELSE [seen_links |-> links,
                   seen_fp    |-> st.seen_fp \cup {fp},
                   merged     |-> <<rec>> \o st.merged]

\* DedupeBody that records the fingerprint before it tests the link
DedupeBodyFpBeforeLink(st, rec) ==
  LET link == Get(rec, "link")
      fp   == fingerprint(rec)
  IN IF Truthy(link) /\ link \in st.seen_links
     THEN [st EXCEPT !.seen_fp = st.seen_fp \cup {fp}]
     ELSE LET links == IF Truthy(link) THEN st.seen_links \cup {link}
                       ELSE st.seen_links
          IN IF fp \in st.seen_fp
             THEN [st EXCEPT !.seen_links = links]
             ELSE [seen_links |-> links,
                   seen_fp    |-> st.seen_fp \cup {fp},
                   merged     |-> Append(st.merged, rec)]

\* DedupeBody that never records a link (seen_links.add forgotten)
DedupeBodyNoLinkAdd(st, rec) ==
  LET link == Get(rec, "link")
      fp   == fingerprint(rec)
  IN IF Truthy(link) /\ link \in st.seen_links THEN st
     ELSE IF fp \in st.seen_fp THEN st
          ELSE [seen_links |-> st.seen_links,
                seen_fp    |-> st.seen_fp \cup {fp},
                merged     |-> Append(st.merged, rec)]

\* one pass of the body of "for rec in listings" over the dedupe state
DedupeBody(st, rec) ==
  LET link == Get(rec, "link")
      fp   == fingerprint(rec)
  IN IF Truthy(link) /\ link \in st.seen_links THEN st
     ELSE LET links == IF Truthy(link) THEN st.seen_links \cup {link}
                       ELSE st.seen_links
          IN IF fp \in st.seen_fp
             THEN [st EXCEPT !.seen_links = links]
             ELSE [seen_links |-> links,
                   seen_fp    |-> st.seen_fp \cup {fp},
                   merged     |-> Append(st.merged, rec)]

EmptyDedupe == [seen_links |-> {}, seen_fp |-> {}, merged |-> <<>>]

\* the whole dedupe loop over a list of records
RECURSIVE DedupeAll(_, _)
DedupeAll(st, recs) ==
  IF recs = <<>> THEN st ELSE DedupeAll(DedupeBody(st, Head(recs)), Tail(recs))

\* out_obj whose total counts the records before deduplication
OutObjCountInput(fa, fk, recs) ==
  << Pair("brand", PyOr(PyOr(Get(fa, "brand"), Get(fk, "brand")), None)),
     Pair("location", PyOr(PyOr(Get(fa, "location"), Get(fk, "location")), None)),
     Pair("total_number_merged", Num(Len(listings))),
     Pair("listings", List(recs)) >>

\* out_obj of lines 112-117
OutObj(fa, fk, recs) ==
  << Pair("brand", PyOr(PyOr(Get(fa, "brand"), Get(fk, "brand")), None)),
     Pair("location", PyOr(PyOr(Get(fa, "location"), Get(fk, "location")), None)),
     Pair("total_number_merged", Num(Len(recs))),
     Pair("listings", List(recs)) >>

\* lines 84-87
LoadAutotrader ==
  /\ pc = "autotrader"
  /\ LET r == BuildAll(ListingsOf(a), SourceLabel(a, AUTOTRADER))
     IN IF r.raised
        THEN pc' = "raised" /\ UNCHANGED listings
        ELSE pc' = "kijiji" /\ listings' = r.val
  /\ UNCHANGED <<a, k, idx, seen_links, seen_fp, merged, out_obj>>
  /\ UNCHANGED spider_vars

\* lines 90-98
LoadKijiji ==
  /\ pc = "kijiji"
  /\ LET r == BuildAll(ListingsOf(k), SourceLabel(k, KIJIJI))
     IN IF r.raised
        THEN pc' = "raised" /\ UNCHANGED <<listings, idx>>
        ELSE pc' = "dedupe" /\ listings' = listings \o r.val /\ idx' = 1
  /\ seen_links' = {}
  /\ seen_fp' = {}
  /\ merged' = <<>>
  /\ UNCHANGED <<a, k, out_obj>>
  /\ UNCHANGED spider_vars

\* lines 99-109, one record
Dedupe ==
  /\ pc = "dedupe"
  /\ idx <= Len(listings)
  /\ LET st == DedupeBody([seen_links |-> seen_links, seen_fp |-> seen_fp,
                           merged |-> merged], listings[idx])
     IN /\ seen_links' = st.seen_links
        /\ seen_fp' = st.seen_fp
        /\ merged' = st.merged
  /\ idx' = idx + 1
  /\ UNCHANGED <<a, k, pc, listings, out_obj>>
  /\ UNCHANGED spider_vars

\* lines 112-118
WriteOutput ==
  /\ pc = "dedupe"
  /\ idx > Len(listings)
  /\ out_obj' = Dict(OutObj(a, k, merged))
  /\ pc' = "done"
  /\ UNCHANGED <<a, k, listings, idx, seen_links, seen_fp, merged>>
  /\ UNCHANGED spider_vars

Next == LoadAutotrader \/ LoadKijiji \/ Dedupe \/ WriteOutput

\* ------------------------------------------------------------------ inputs
SeqsUpTo(S, n) == UNION {[1..m -> S] : m \in 0..n}

\* raw listings of the merge runs
R1 == <<Pair("title", Str(<<"A", ",", " ", "b">>)), Pair("price", Str(<<"$", "2", "5">>)),
        Pair("link", Str(<<"x">>))>>
R2 == <<Pair("title", Str(<<" ", "a", " ", " ", "b">>)), Pair("price", Str(<<"2", "5">>))>>
R3 == <<Pair("title", Str(<<"A", " ", "b">>)), Pair("price", Str(<<"3", "0">>)),
        Pair("link", Str(<<"x">>))>>
R4 == <<Pair("title", Str(<<"A", " ", "b">>)), Pair("price", Str(<<"3", "0">>)),
        Pair("url", Str(<<"y">>))>>
R5 == <<Pair("title", Str(<<"a", "_", " ", "b">>)), Pair("price", Num(25))>>
R6 == <<Pair("title", Str(<<"A", " ", "b">>)), Pair("price", Str(<<"0">>))>>
R7 == <<Pair("name", Str(<<"A", " ", "b">>))>>
R8 == <<Pair("title", Str(<<"A", " ", "b">>)), Pair("location", Num(5))>>

MergeRaws == {R1, R2, R3, R4, R5, R6, R7}

FileOf(items) == <<Pair("listings", List(items))>>

\* source files whose listings key is missing or not a list, one that names
\* its source, one with two distinct listings, and one with a listing whose
\* location is a number
OddFiles ==
  { <<Pair("brand", Str(<<"B">>))>>,
    <<Pair("listings", Str(<<"x">>))>>,
    <<Pair("source", Str(<<"s">>)), Pair("listings", List(<<R1, R2>>))>>,
    <<Pair("listings", List(<<R2, R4>>))>>,
    <<Pair("listings", List(<<R1, R8>>))>> }

Init ==
  /\ a \in {FileOf(items) : items \in SeqsUpTo(MergeRaws, MaxA)} \cup OddFiles
  /\ k \in {FileOf(items) : items \in SeqsUpTo(MergeRaws, MaxK)} \cup OddFiles
  /\ pc = "autotrader"
  /\ listings = <<>>
  /\ idx = 0
  /\ seen_links = {}
  /\ seen_fp = {}
  /\ merged = <<>>
  /\ out_obj = None
  /\ SpiderIdle

Spec == Init /\ [][Next]_vars

\* raw listings of the builder runs: at most MaxKeys keys, every value
BuildKeys ==
  <<"title", "name", "price", "mileage_km", "mileage", "year", "model",
    "province_city", "location", "city", "link", "url", "fuel">>

BuildValues ==
  { None, Str(<<>>), Str(<<" ">>), Str(<<" ", "7", ",", "a">>), Str(<<"~:", "x">>),
    Num(0), Num(7) }

InKeys(S) == SelectSeq(BuildKeys, LAMBDA key : key \in S)
MkRaw(S, f) == LET ks == InKeys(S) IN [i \in 1..Len(ks) |-> Pair(ks[i], f[ks[i]])]

\* every set of at most MaxKeys keys, and the three location aliases together
KeySets ==
  {T \in SUBSET {BuildKeys[i] : i \in 1..Len(BuildKeys)} : Cardinality(T) <= MaxKeys}
    \cup {{"province_city", "location", "city"}}

InitBuild ==
  /\ \E S \in KeySets : \E f \in [S -> BuildValues] : a = FileOf(<<MkRaw(S, f)>>)
  /\ k = FileOf(<<>>)
  /\ pc = "autotrader"
  /\ listings = <<>>
  /\ idx = 0
  /\ seen_links = {}
  /\ seen_fp = {}
  /\ merged = <<>>
  /\ out_obj = None
  /\ SpiderIdle

SpecBuild == InitBuild /\ [][Next]_vars

\* ================================================================== claims
InLoop == pc \in {"dedupe", "done"}
LinkOf(rec) == Get(rec, "link")

\* the first record of listings that carries link l
FirstWithLink(l) ==
  listings[CHOOSE i \in 1..Len(listings) :
             /\ LinkOf(listings[i]) = l
             /\ \A j \in 1..(i - 1) : LinkOf(listings[j]) # l]

\* C1: of the input records that carry one non-null link, at most one is in
\* merged, and a survivor is the first of them in concatenation order
C1_LinkDedupPrecedence ==
  InLoop =>
    \A i \in 1..Len(listings) :
      LET l == LinkOf(listings[i])
      IN Truthy(l) =>
           /\ Cardinality({m \in 1..Len(merged) : LinkOf(merged[m]) = l}) <= 1
           /\ \A m \in 1..Len(merged) :
                LinkOf(merged[m]) = l => merged[m] = FirstWithLink(l)

\* two different records share a link and the first of them survived
C1_Witness ==
  /\ pc = "done"
  /\ \E i, j \in 1..Len(listings) :
       /\ i < j
       /\ Truthy(LinkOf(listings[i]))
       /\ LinkOf(listings[i]) = LinkOf(listings[j])
       /\ listings[i] # listings[j]
       /\ \E m \in 1..Len(merged) : merged[m] = listings[i]

\* C2: no two records of merged have the same fingerprint
C2_FingerprintsDistinct ==
  \A i, j \in 1..Len(merged) :
    i # j => fingerprint(merged[i]) # fingerprint(merged[j])

\* two linked records with different links and one fingerprint met in the
\* loop, and a link-less record was kept after them
C2_Witness ==
  /\ pc = "done"
  /\ Len(merged) = 2
  /\ ~Truthy(LinkOf(merged[2]))
  /\ \E i, j \in 1..Len(listings) :
       /\ i < j
       /\ fingerprint(listings[i]) = fingerprint(listings[j])
       /\ Truthy(LinkOf(listings[i])) /\ Truthy(LinkOf(listings[j]))
       /\ LinkOf(listings[i]) # LinkOf(listings[j])

\* the records of source A, deduplicated on their own
DedupeAlone ==
  DedupeAll(EmptyDedupe, BuildAll(ListingsOf(a), SourceLabel(a, AUTOTRADER)).val).merged

\* C3: when both sources are the same dataset, merged is what deduplicating
\* the dataset alone gives, from the end of the first copy to the end of the
\* loop: the second copy adds nothing and removes nothing
C3_SelfMergeIdempotent ==
  (InLoop /\ a = k /\ idx > Len(ListingsOf(a))) => merged = DedupeAlone

\* a dataset of two records, both kept, merged with itself
C3_Witness ==
  /\ pc = "done"
  /\ a = k
  /\ Len(ListingsOf(a)) = 2
  /\ Len(listings) = 4
  /\ Len(merged) = 2

\* s is a subsequence of t
RECURSIVE IsSubseq(_, _)
IsSubseq(s, t) ==
  IF s = <<>> THEN TRUE
  ELSE IF t = <<>> THEN FALSE
       ELSE IF Head(s) = Head(t) THEN IsSubseq(Tail(s), Tail(t))
            ELSE IsSubseq(s, Tail(t))

SourceOf(rec) == Get(rec, "source")

\* C4: merged is a subsequence of the concatenation, and no record labelled
\* with the second source's default label precedes one labelled with the
\* first's
C4_OrderPreserved ==
  InLoop =>
    /\ IsSubseq(merged, listings)
    /\ \A i, j \in 1..Len(merged) :
         i < j => ~(SourceOf(merged[i]) = Str(KIJIJI) /\ SourceOf(merged[j]) = Str(AUTOTRADER))

\* survivors of both sources, with a record dropped
C4_Witness ==
  /\ pc = "done"
  /\ Len(merged) >= 2
  /\ Len(merged) < Len(listings)
  /\ SourceOf(merged[1]) = Str(AUTOTRADER)
  /\ SourceOf(merged[Len(merged)]) = Str(KIJIJI)

\* the punctuation characters of the model's alphabet
IsPunct(c) == c \in {"_", "-", "$", ",", "/", "|"}
NotPunct(c) == ~IsPunct(c)

\* a title with letter case, punctuation and the length of whitespace runs
\* ignored
Essence(t) == str_strip(CollapseSpaces(SelectSeq(str_lower(t), NotPunct)))

TitleOf(rec) == PyOr(Get(rec, "title"), Str(<<>>)).s

SameListing(r1, r2) ==
  /\ Essence(TitleOf(r1)) = Essence(TitleOf(r2))
  /\ Get(r1, "year") = Get(r2, "year")
  /\ Get(r1, "price") = Get(r2, "price")

InMerged(rec) == \E m \in 1..Len(merged) : merged[m] = rec

\* C5: records whose titles agree up to case, punctuation and whitespace and
\* whose year and price agree have one fingerprint, and a link-less record
\* that follows such a survivor is dropped
C5_FormattingInvariant ==
  InLoop =>
    \A i, j \in 1..Len(listings) :
      SameListing(listings[i], listings[j]) =>
        /\ fingerprint(listings[i]) = fingerprint(listings[j])
        /\ (pc = "done" /\ i < j /\ InMerged(listings[i])
              /\ ~Truthy(LinkOf(listings[j])) /\ listings[i] # listings[j])
             => ~InMerged(listings[j])

\* C6: two records whose prices differ and that share no non-null link are
\* both kept
C6_DistinctPricesKept ==
  (pc = "done" /\ Len(listings) = 2
     /\ Get(listings[1], "price") # Get(listings[2], "price")
     /\ ~(Truthy(LinkOf(listings[1])) /\ LinkOf(listings[1]) = LinkOf(listings[2])))
  => Len(merged) = 2

\* ------------------------------------------------------ the builder's claims
Built == pc \in {"kijiji", "dedupe", "done"}

\* the raw listings in the order in which they are built
AllRaws == ListingsOf(a) \o ListingsOf(k)

KeysOf(d) == [i \in 1..Len(d) |-> d[i].k]

NoDigit(v) == v.t = "str" /\ \A i \in 1..Len(v.s) : ~IsDigit(v.s[i])

\* the raw keys the builder reads for each canonical field
SpellingsOf(f) ==
  CASE f = "title" -> {"title", "name"}
    [] f = "mileage_km" -> {"mileage_km", "mileage"}
    [] f = "province_city" -> {"province_city", "location", "city"}
    [] f = "link" -> {"link", "url"}
    [] OTHER -> {f}

\* C7: every built record has exactly the canonical keys, in the fixed order;
\* a field none of whose spellings is supplied, and a price or year without
\* digits, is there as null
C7_CanonicalKeys ==
  Built =>
    \A i \in 1..Len(listings) :
      /\ KeysOf(listings[i]) = CanonicalKeys
      /\ \A f \in {"title", "price", "mileage_km", "year", "model", "province_city", "link"} :
           (\A key \in SpellingsOf(f) : ~HasKey(AllRaws[i], key))
             => Get(listings[i], f) = None
      /\ \A f \in {"price", "year"} :
           NoDigit(Get(AllRaws[i], f)) => Get(listings[i], f) = None

\* a record was built from a raw listing that has no title, no price and a
\* year without digits
C7_Witness ==
  /\ pc = "done"
  /\ Len(listings) = 1
  /\ ~HasKey(AllRaws[1], "title") /\ ~HasKey(AllRaws[1], "name")
  /\ ~HasKey(AllRaws[1], "price")
  /\ HasKey(AllRaws[1], "year") /\ Truthy(Get(AllRaws[1], "year"))
  /\ Get(listings[1], "year") = None
  /\ Len(listings[1]) = 9

\* C8: normalize_listing never raises
C8_BuilderTotal == pc # "raised"

TitleKeys == <<"title", "name">>
MileageKeys == <<"mileage_km", "mileage">>
LocationKeys == <<"province_city", "location", "city">>
LinkKeys == <<"link", "url">>

\* the value of the first of keys that is present in raw, None when none is
FirstPresent(raw, keys) ==
  IF \E i \in 1..Len(keys) : HasKey(raw, keys[i])
  THEN Get(raw, keys[CHOOSE i \in 1..Len(keys) :
                       /\ HasKey(raw, keys[i])
                       /\ \A j \in 1..(i - 1) : ~HasKey(raw, keys[j])])
  ELSE None

\* the value of the first of keys whose value in raw is truthy; when there is
\* none, what raw.get gives for the last of keys
FirstTruthy(raw, keys) ==
  IF \E i \in 1..Len(keys) : Truthy(Get(raw, keys[i]))
  THEN Get(raw, keys[CHOOSE i \in 1..Len(keys) :
                       /\ Truthy(Get(raw, keys[i]))
                       /\ \A j \in 1..(i - 1) : ~Truthy(Get(raw, keys[j]))])
  ELSE Get(raw, keys[Len(keys)])

NullIfFalsy(v) == IF Truthy(v) THEN v ELSE None

\* the canonical fields the builder makes of the values it takes
TitleFrom(v) == NullIfFalsy(normalize_text(IF Truthy(v) THEN v ELSE Str(<<>>)))
MileageFrom(v) == parse_int(v)
LocationFrom(v) == canonicalize_location(v)
LinkFrom(v) == NullIfFalsy(normalize_text(v))

\* the aliased fields of the built records come from the values Pick selects
AliasesTakenBy(Pick(_, _)) ==
  /\ Built =>
       \A i \in 1..Len(listings) :
         /\ Get(listings[i], "title") = TitleFrom(Pick(AllRaws[i], TitleKeys))
         /\ Get(listings[i], "mileage_km") = MileageFrom(Pick(AllRaws[i], MileageKeys))
         /\ ~LocationFrom(Pick(AllRaws[i], LocationKeys)).raised
         /\ Get(listings[i], "province_city")
              = NullIfFalsy(LocationFrom(Pick(AllRaws[i], LocationKeys)).val)
         /\ Get(listings[i], "link") = LinkFrom(Pick(AllRaws[i], LinkKeys))
  /\ pc = "raised" =>
       \E i \in 1..Len(AllRaws) : LocationFrom(Pick(AllRaws[i], LocationKeys)).raised

\* C9 as stated: each aliased field is built from the value of the first
\* alias key present in the raw listing, whatever that value is
C9_FirstPresentWins == AliasesTakenBy(FirstPresent)

\* C9 amended: each aliased field is built from the value of the first alias
\* key whose value is truthy; a later alias is consulted whenever the earlier
\* keys are absent or hold a falsy value
C9_FirstTruthyWins == AliasesTakenBy(FirstTruthy)

\* an earlier alias is present with a falsy value and the field was built
\* from a later alias
C9_Witness ==
  /\ pc = "done"
  /\ Len(listings) = 1
  /\ HasKey(AllRaws[1], "title") /\ ~Truthy(Get(AllRaws[1], "title"))
  /\ Truthy(Get(AllRaws[1], "name"))
  /\ Get(listings[1], "title") # None
  /\ Get(listings[1], "title") = TitleFrom(Get(AllRaws[1], "name"))

\* every key the builder reads for a canonical field
AcceptedSpellings == ConsumedKeys \cup {"name", "city"}

NotAccepted(p) == p.k \notin AcceptedSpellings

\* C10: extra holds exactly the raw keys that are not an accepted spelling of
\* a canonical field, each with its value
C10_ExtraExact ==
  Built =>
    \A i \in 1..Len(listings) :
      LET e == SelectSeq(AllRaws[i], NotAccepted)
      IN Get(listings[i], "extra") = IF e = <<>> THEN None ELSE Dict(e)

\* --------------------------------------------- inputs of the normalizer runs
\* every string of at most n characters of the set C
StringsUpTo(C, n) == UNION {[1..m -> C] : m \in 0..n}

PriceChars == {"5", "0", "-", "$", " "}
LocChars == {",", "/", "|", "-", " ", "a", "B"}
TextChars == {" ", "\t", "a", "~:"}

\* one raw listing with one field: a price or mileage string, a location
\* string, a title string, or a null
InitNorm ==
  /\ \/ \E key \in {"price", "mileage_km"} : \E s \in StringsUpTo(PriceChars, MaxStr) :
          a = FileOf(<< <<Pair(key, Str(s))>> >>)
     \/ \E s \in StringsUpTo(LocChars, MaxLoc) : a = FileOf(<< <<Pair("location", Str(s))>> >>)
     \/ \E s \in StringsUpTo(TextChars, MaxStr) : a = FileOf(<< <<Pair("title", Str(s))>> >>)
     \/ \E key \in {"price", "location", "title"} : a = FileOf(<< <<Pair(key, None)>> >>)
  /\ k = FileOf(<<>>)
  /\ pc = "autotrader"
  /\ listings = <<>>
  /\ idx = 0
  /\ seen_links = {}
  /\ seen_fp = {}
  /\ merged = <<>>
  /\ out_obj = None
  /\ SpiderIdle

SpecNorm == InitNorm /\ [][Next]_vars

\* ---------------------------------------------------- the normalizers' claims
IsMinus(c) == c = "-"
OneRaw == Len(AllRaws) = 1
TheRaw == AllRaws[1]

\* the value under key of the one raw listing is a string
HasStr(key) == OneRaw /\ HasKey(TheRaw, key) /\ Get(TheRaw, key).t = "str"

\* s with every character deleted that is not a digit or a minus sign in
\* front of all digits and other minus signs
KeepLeadingMinus(s) ==
  LET f == SelectSeq(s, IsDigitOrMinus)
  IN IF f = <<>> THEN <<>> ELSE <<Head(f)>> \o SelectSeq(Tail(f), IsDigit)

\* C11 as stated: parse_int(s) is the integer left when every character but
\* the digits and a leading minus sign is deleted, null when that is empty or
\* no integer literal; a minus sign that is not leading is deleted
C11_LeadingMinusOnly ==
  (Built /\ HasStr("price")) =>
    LET r == KeepLeadingMinus(Get(TheRaw, "price").s)
    IN Get(listings[1], "price") = IF IsIntLiteral(r) THEN Num(IntValue(r)) ELSE None

\* what parse_int makes of s, from the digits and the minus signs of s
IntOfDigitsAndMinus(s) ==
  LET d == SelectSeq(s, IsDigit)
      minusAt == {i \in 1..Len(s) : s[i] = "-"}
      digitAt == {i \in 1..Len(s) : IsDigit(s[i])}
  IN IF d = <<>> THEN None
     ELSE IF minusAt = {} THEN Num(DigitsValue(d))
     ELSE IF Cardinality(minusAt) = 1 /\ \A i \in minusAt : \A j \in digitAt : i < j
          THEN Num(0 - DigitsValue(d))
          ELSE None

\* C11 amended: parse_int(s) keeps every minus sign: it is the integer of
\* the digits of s, negated when s has one minus sign and that before all
\* digits, and null when s has no digit, a minus sign after a digit or more
\* than one minus sign
C11_EveryMinusKept ==
  (Built /\ HasStr("price")) =>
    Get(listings[1], "price") = IntOfDigitsAndMinus(Get(TheRaw, "price").s)

\* a price with a currency sign, a minus sign and digits was parsed as a
\* negative integer
C11_Witness ==
  /\ pc = "done"
  /\ HasStr("price")
  /\ Get(TheRaw, "price").s = <<"$", "-", "5", "0">>
  /\ Get(listings[1], "price") = Num(-50)

IsBlank(v) == v.t = "str" /\ str_strip(v.s) = <<>>

\* the one field of the raw listing, when it is a string or null
StrOrNullField(key) ==
  OneRaw /\ HasKey(TheRaw, key) /\ Get(TheRaw, key).t \in {"str", "null"}

\* C12 as stated: on string and null input the three normalizers never
\* raise, and normalize_text returns null for null, empty and blank input
C12_NullOnUnusable ==
  /\ (OneRaw /\ \A i \in 1..Len(TheRaw) : TheRaw[i].v.t \in {"str", "null"}) => pc # "raised"
  /\ (Built /\ StrOrNullField("title")) =>
       ((Get(TheRaw, "title") = None \/ IsBlank(Get(TheRaw, "title")))
          => normalize_text(Get(TheRaw, "title")) = None)

\* C12 amended: on string and null input the three normalizers never raise;
\* parse_int is null on input without digits, canonicalize_location on input
\* without a non-blank part, and normalize_text is null for null input and
\* the empty string for empty and blank input
C12_NullOrEmptyOnUnusable ==
  /\ (OneRaw /\ \A i \in 1..Len(TheRaw) : TheRaw[i].v.t \in {"str", "null"}) => pc # "raised"
  /\ (Built /\ StrOrNullField("title")) =>
       /\ Get(TheRaw, "title") = None => normalize_text(Get(TheRaw, "title")) = None
       /\ IsBlank(Get(TheRaw, "title")) => normalize_text(Get(TheRaw, "title")) = Str(<<>>)
       /\ (Get(TheRaw, "title") = None \/ IsBlank(Get(TheRaw, "title")))
            => Get(listings[1], "title") = None
  /\ (Built /\ StrOrNullField("price")) =>
       ((Get(TheRaw, "price") = None \/ NoDigit(Get(TheRaw, "price")))
          => Get(listings[1], "price") = None)
  /\ (Built /\ StrOrNullField("location")) =>
       ((Get(TheRaw, "location") = None
           \/ \A i \in 1..Len(Get(TheRaw, "location").s) :
                IsLocDelim(Get(TheRaw, "location").s[i]) \/ IsSpace(Get(TheRaw, "location").s[i]))
          => Get(listings[1], "province_city") = None)

\* a record was built from a title of blanks only
C12_Witness ==
  /\ pc = "done"
  /\ HasStr("title")
  /\ Get(TheRaw, "title").s = <<" ", "\t", " ">>
  /\ Get(listings[1], "title") = None

\* the positions of the delimiters in s, with both ends of s
LocCuts(s) == {0, Len(s) + 1} \cup {i \in 1..Len(s) : IsLocDelim(s[i])}

\* the piece of s that starts after the cut p
LocPiece(s, p) ==
  LET q == CHOOSE e \in LocCuts(s) : e > p /\ \A f \in LocCuts(s) : f > p => e <= f
  IN SubSeq(s, p + 1, q - 1)

\* the cuts of s that start a piece with a non-blank character
LocStarts(s) == {p \in LocCuts(s) : p <= Len(s) /\ str_strip(LocPiece(s, p)) # <<>>}

\* the location of s: the first two non-blank pieces, trimmed, title-cased
\* and joined by ", "
TwoPieces(s) ==
  LET st == LocStarts(s)
      p1 == CHOOSE p \in st : \A q \in st : p <= q
      p2 == CHOOSE p \in st \ {p1} : \A q \in st \ {p1} : p <= q
      c1 == str_title(str_strip(LocPiece(s, p1)))
  IN IF st = {} THEN None
     ELSE IF st = {p1} THEN Str(c1)
     ELSE Str(c1 \o <<",", " ">> \o str_title(str_strip(LocPiece(s, p2))))

\* C13: canonicalize_location(s) is the first two non-blank pieces of s
\* between the delimiters , / | -, trimmed and title-cased, joined by ", ";
\* it has at most two components and is null exactly when no piece survives
C13_LocationTwoParts ==
  (Built /\ HasStr("location")) =>
    LET s == Get(TheRaw, "location").s
        r == Get(listings[1], "province_city")
    IN /\ r = TwoPieces(s)
       /\ r = None <=> LocStarts(s) = {}
       /\ r # None =>
            /\ Cardinality({i \in 1..Len(r.s) : r.s[i] = ","}) <= 1
            /\ \A i \in 1..Len(r.s) : r.s[i] \notin {"/", "|", "-"}
            /\ r.s[1] # " " /\ r.s[Len(r.s)] # " "

\* a location of three pieces was cut to its first two
C13_Witness ==
  /\ pc = "done"
  /\ HasStr("location")
  /\ Get(TheRaw, "location").s = <<"a", "/", "a", "-", "B">>
  /\ Get(listings[1], "province_city") = Str(<<"A", ",", " ", "A">>)

NonNegative(v) == v = None \/ (v.t = "num" /\ v.n >= 0)

\* C14: price and mileage_km of every built record are null or an integer
\* that is not negative
C14_NonNegative ==
  Built =>
    \A i \in 1..Len(listings) :
      NonNegative(Get(listings[i], "price")) /\ NonNegative(Get(listings[i], "mileage_km"))


\* ------------------------------------------------------ the written object
\* C17: in the written object total_number_merged is the number of elements
\* of listings, and that number is at most the sum of the two sources'
\* listing counts
C17_TotalIsLength ==
  pc = "done" =>
    /\ Get(out_obj.d, "listings").t = "list"
    /\ Get(out_obj.d, "total_number_merged")
         = Num(Len(Get(out_obj.d, "listings").items))
    /\ Len(Get(out_obj.d, "listings").items)
         <= Len(ListingsOf(a)) + Len(ListingsOf(k))

\* an object written after the loop dropped a record and kept another
C17_Witness ==
  /\ pc = "done"
  /\ Get(out_obj.d, "total_number_merged") = Num(2)
  /\ Len(ListingsOf(a)) + Len(ListingsOf(k)) = 3

\* record i of listings is dropped by the link test: its link is non-null
\* and an earlier record carries it
LinkDropped(i) ==
  /\ Truthy(LinkOf(listings[i]))
  /\ \E h \in 1..(i - 1) : LinkOf(listings[h]) = LinkOf(listings[i])

\* the records the loop has been through
Visited == 1..(IF idx - 1 < Len(listings) THEN idx - 1 ELSE Len(listings))

\* C18: a record dropped by the link test leaves no fingerprint in seen_fp
\* (seen_fp holds the fingerprints of the other visited records only), so a
\* record that passes the link test and whose fingerprint is carried before
\* it by link-dropped records only is kept
C18_LinkDropLeavesFingerprints ==
  InLoop =>
    /\ seen_fp = {fingerprint(listings[i]) : i \in {j \in Visited : ~LinkDropped(j)}}
    /\ \A j \in Visited :
         (/\ ~LinkDropped(j)
          /\ \A h \in 1..(j - 1) :
               fingerprint(listings[h]) = fingerprint(listings[j]) => LinkDropped(h))
         => InMerged(listings[j])

\* a record was dropped by its link, and a later record with the same
\* fingerprint and another link was kept
C18_Witness ==
  /\ pc = "done"
  /\ \E i, j \in 1..Len(listings) :
       /\ i < j
       /\ LinkDropped(i)
       /\ ~LinkDropped(j)
       /\ fingerprint(listings[i]) = fingerprint(listings[j])
       /\ \A h \in 1..(j - 1) :
            fingerprint(listings[h]) = fingerprint(listings[j]) => LinkDropped(h)
       /\ InMerged(listings[j])

\* C19: an output is written only when both source files have a listings
\* key that holds a list
C19_SchemaFailureAborts ==
  pc = "done" =>
    /\ Get(a, "listings").t = "list"
    /\ Get(k, "listings").t = "list"

\* ======================================================= kijiji_spider.py
\* The spider of spiders/kijiji_spider.py: the title parser, the deal tag
\* and listing normalizers, fetch_page and the concurrent crawl.  A listing
\* card is a record of the texts of its elements (None for an element the
\* page does not have); its details field is the list of the detail texts.
MINI == <<"m", "i", "n", "i">>
FIAT == <<"f", "i", "a", "t">>
SMART == <<"s", "m", "a", "r", "t">>

\* the entries of KNOWN_MODELS for the brands fiat and mini
KNOWN_MODELS ==
  << [k |-> FIAT,
      v |-> << <<"5", "0", "0">>,
            <<"5", "0", "0", "X">>,
            <<"5", "0", "0", "L">>,
            <<"1", "2", "4", " ", "S", "p", "i", "d", "e", "r">> >>],
     [k |-> MINI,
      v |-> << <<"J", "o", "h", "n", " ", "C", "o", "o", "p", "e", "r", " ", "W", "o", "r", "k", "s">>,
            <<"C", "o", "o", "p", "e", "r", " ", "H", "a", "r", "d", "t", "o", "p", " ", "S">>,
            <<"C", "o", "o", "p", "e", "r", " ", "H", "a", "r", "d", "t", "o", "p">>,
            <<"3", " ", "D", "o", "o", "r", " ", "C", "o", "o", "p", "e", "r", " ", "S">>,
            <<"3", " ", "D", "o", "o", "r", " ", "C", "o", "o", "p", "e", "r">>,
            <<"5", " ", "D", "o", "o", "r", " ", "C", "o", "o", "p", "e", "r", " ", "S">>,
            <<"5", " ", "D", "o", "o", "r", " ", "C", "o", "o", "p", "e", "r">>,
            <<"C", "o", "u", "n", "t", "r", "y", "m", "a", "n", " ", "C", "o", "o", "p", "e", "r", " ", "S">>,
            <<"C", "o", "u", "n", "t", "r", "y", "m", "a", "n">>,
            <<"C", "l", "u", "b", "m", "a", "n", " ", "C", "o", "o", "p", "e", "r", " ", "S">>,
            <<"C", "l", "u", "b", "m", "a", "n">>,
            <<"C", "o", "n", "v", "e", "r", "t", "i", "b", "l", "e", " ", "C", "o", "o", "p", "e", "r", " ", "S">>,
            <<"C", "o", "n", "v", "e", "r", "t", "i", "b", "l", "e">>,
            <<"P", "a", "c", "e", "m", "a", "n">>,
            <<"R", "o", "a", "d", "s", "t", "e", "r">>,
            <<"C", "o", "u", "p", "e">>,
            <<"C", "o", "o", "p", "e", "r", " ", "S", "E">>,
            <<"C", "o", "o", "p", "e", "r", " ", "S">>,
            <<"C", "o", "o", "p", "e", "r">> >>] >>

\* KNOWN_MODELS.get(b.lower(), [])
ModelsOf(b) ==
  LET hits == SelectSeq(KNOWN_MODELS, LAMBDA e : e.k = str_lower(b))
  IN IF hits = <<>> THEN <<>> ELSE hits[1].v

MaxLenOf(s) == IF s = <<>> THEN 0 ELSE CHOOSE n \in {Len(s[i]) : i \in 1..Len(s)} :
                                         \A i \in 1..Len(s) : Len(s[i]) <= n

\* sorted(s, key=lambda x: -len(x)): longest first, equal lengths in the
\* order of the list (the sort is stable)
RECURSIVE LongestFirstFrom(_, _)
LongestFirstFrom(s, n) ==
  IF n < 0 THEN <<>>
  ELSE SelectSeq(s, LAMBDA x : Len(x) = n) \o LongestFirstFrom(s, n - 1)

\* the candidates in the order of the list (no sort)
ListOrder(s) == s

LongestFirst(s) == LongestFirstFrom(s, MaxLenOf(s))

\* s[i] exists and is a \w character
WordAt(s, i) == i >= 1 /\ i <= Len(s) /\ IsWord(s[i])

\* \b between s[p] and s[p + 1]
Boundary(s, p) == WordAt(s, p) # WordAt(s, p + 1)

\* sub in s
Contains(sub, s) ==
  \E i \in 0..(Len(s) - Len(sub)) : SubSeq(s, i + 1, i + Len(sub)) = sub

\* re.search(re.escape(c), s), without the two \b
SearchAnywhere(c, s) == Contains(c, s)

\* re.search(r"\b" + re.escape(c) + r"\b", s)
SearchWord(c, s) ==
  \E i \in 0..(Len(s) - Len(c)) :
    /\ SubSeq(s, i + 1, i + Len(c)) = c
    /\ Boundary(s, i)
    /\ Boundary(s, i + Len(c))

\* re.match(r"(\d{4})\s+(.*)", t)
YearMatch(t) ==
  /\ Len(t) >= 5
  /\ \A i \in 1..4 : IsDigit(t[i])
  /\ IsSpace(t[5])

\* s.split("|")[0]
BeforeBar(s) ==
  IF \E i \in 1..Len(s) : s[i] = "|"
  THEN SubSeq(s, 1, (CHOOSE i \in 1..Len(s) :
                       s[i] = "|" /\ \A j \in 1..(i - 1) : s[j] # "|") - 1)
  ELSE s

\* the text the candidates are searched in: the title without its year,
\* cut at the first "|", stripped and lowered
WorkingText(t) ==
  LET rest == IF YearMatch(t) THEN LStrip(SubSeq(t, 5, Len(t))) ELSE t
  IN str_lower(str_strip(BeforeBar(rest)))

\* parse_title(title_text, brand) of the Kijiji spider
kijiji_parse_title(title_text, b) ==
  IF ~Truthy(title_text) THEN [year |-> None, model |-> None]
  ELSE LET t == title_text.s
           text_lower == WorkingText(t)
           hits == SelectSeq(LongestFirst(ModelsOf(b)),
                             LAMBDA c : SearchWord(str_lower(c), text_lower))
       IN [year  |-> IF YearMatch(t) THEN Str(SubSeq(t, 1, 4)) ELSE None,
           model |-> IF hits = <<>> THEN None ELSE Str(hits[1])]

GREAT == <<"G", "r", "e", "a", "t">>
GOOD == <<"G", "o", "o", "d">>
FAIR == <<"F", "a", "i", "r">>
OVER == <<"o", "v", "e", "r">>
OVERPRICED == <<"O", "v", "e", "r", "p", "r", "i", "c", "e", "d">>
UNKNOWN == <<"U", "n", "k", "n", "o", "w", "n">>

\* clean_deal_tag(tag_text)
clean_deal_tag(tag_text) ==
  IF ~Truthy(tag_text) THEN Str(UNKNOWN)
  ELSE LET text == str_lower(tag_text.s)
       IN IF Contains(str_lower(GREAT), text) THEN Str(GREAT)
          ELSE IF Contains(str_lower(GOOD), text) THEN Str(GOOD)
          ELSE IF Contains(str_lower(FAIR), text) THEN Str(FAIR)
          ELSE IF Contains(OVER, text) THEN Str(OVERPRICED)
          ELSE Str(UNKNOWN)

\* str.capitalize()
str_capitalize(s) ==
  [i \in 1..Len(s) |-> IF i = 1 THEN UpperChar(s[i]) ELSE LowerChar(s[i])]

\* int(re.sub(r"[^\d]", "", v)) if v and the digits are not empty, else None
DigitsOf(v) ==
  IF ~Truthy(v) THEN None
  ELSE LET num == SelectSeq(v.s, IsDigit)
       IN IF num # <<>> THEN Num(DigitsValue(num)) ELSE None

\* x.capitalize() if x else None
CapitalizedOrNone(v) == IF Truthy(v) THEN Str(str_capitalize(v.s)) ELSE None

\* normalize_listing(listing) of the Kijiji spider
kijiji_normalize_listing(listing) ==
  LET year == Get(listing, "year")
  IN << Pair("title", Get(listing, "title")),
        Pair("price", DigitsOf(Get(listing, "price"))),
        Pair("mileage_km", DigitsOf(Get(listing, "mileage"))),
        Pair("transmission", CapitalizedOrNone(Get(listing, "transmission"))),
        Pair("fuel", CapitalizedOrNone(Get(listing, "fuel"))),
        Pair("year", IF Truthy(year) /\ AllDigits(PyStr(year))
                     THEN Num(DigitsValue(PyStr(year))) ELSE None),
        Pair("model", Get(listing, "model")),
        Pair("deal_tag", Get(listing, "deal_tag")),
        Pair("province_city", Get(listing, "province_city")),
        Pair("link", Get(listing, "link")) >>

KM == <<"k", "m">>
AUTOMATIC == <<"a", "u", "t", "o", "m", "a", "t", "i", "c">>
MANUAL == <<"m", "a", "n", "u", "a", "l">>
FuelTypes == {<<"g", "a", "s">>, <<"d", "i", "e", "s", "e", "l">>, <<"e", "l", "e", "c", "t", "r", "i", "c">>, <<"h", "y", "b", "r", "i", "d">>}
HTTP == <<"h", "t", "t", "p">>
KIJIJI_CA == <<"h", "t", "t", "p", "s", ":", "/", "/", "w", "w", "w", ".", "k", "i", "j", "i", "j", "i", ".", "c", "a">>
SOURCE_KIJIJI == <<"k", "i", "j", "i", "j", "i", ".", "c", "a">>

\* el.get_text(strip=True) if el else None
GetText(el) == IF el = None THEN None ELSE Str(str_strip(el.s))

NoDetails == [mileage |-> None, transmission |-> None, fuel |-> None]

\* the loop "for d in details" of fetch_page
RECURSIVE ScanDetails(_, _)
ScanDetails(details, acc) ==
  IF details = <<>> THEN acc
  ELSE LET text == str_lower(str_strip(Head(details)))
           nxt == IF Contains(KM, text) THEN [acc EXCEPT !.mileage = Str(text)]
                  ELSE IF Contains(AUTOMATIC, text) \/ Contains(MANUAL, text)
                       THEN [acc EXCEPT !.transmission = Str(text)]
                  ELSE IF \E f \in FuelTypes : Contains(f, text)
                       THEN [acc EXCEPT !.fuel = Str(text)]
                  ELSE acc
       IN ScanDetails(Tail(details), nxt)

\* link of a card: the href of the title tag, made absolute
LinkOfCard(li) ==
  LET link == IF li.title # None THEN li.href ELSE None
  IN IF Truthy(link) /\ ~(Len(link.s) >= 4 /\ SubSeq(link.s, 1, 4) = HTTP)
     THEN Str(KIJIJI_CA \o link.s)
     ELSE link

\* the body of "for li in soup.select(...)" of fetch_page: the normalized
\* listing of one card
CarOf(li, b) ==
  LET title == GetText(li.title)
      d == ScanDetails(li.details, NoDetails)
      ym == kijiji_parse_title(title, b)
      raw_listing ==
        << Pair("title", title),
           Pair("price", GetText(li.price)),
           Pair("mileage", d.mileage),
           Pair("transmission", d.transmission),
           Pair("fuel", d.fuel),
           Pair("year", ym.year),
           Pair("model", ym.model),
           Pair("deal_tag", clean_deal_tag(GetText(li.deal))),
           Pair("province_city", GetText(li.loc)),
           Pair("link", LinkOfCard(li)) >>
  IN kijiji_normalize_listing(raw_listing)

\* the cars fetch_page(p) returns when the request is answered
fetch_page(p) ==
  IF site[p].status_code # 200 THEN <<>>
  ELSE [i \in 1..Len(site[p].cards) |-> CarOf(site[p].cards[i], brand)]

\* min(32, max(4, int(last_page / 4)))
number_of_workers ==
  LET q == last_page \div 4
      m == IF q > 4 THEN q ELSE 4
  IN IF m < 32 THEN m ELSE 32

Pages == 1..last_page

\* a worker thread runs fetch_page(p) to its end; the tasks start in page
\* order, at most number_of_workers of them unfinished at a time, and go on
\* while the executor shuts down after an exception in the main thread
FetchPage(p) ==
  /\ spider = "kijiji"
  /\ kpc \in {"crawl", "raised"}
  /\ futures[p].state = "running"
  /\ p <= Cardinality({q \in Pages : futures[q].state # "running"}) + number_of_workers
  /\ futures' = [futures EXCEPT ![p] =
                   IF site[p].timeout THEN [state |-> "failed", cars |-> <<>>]
                   ELSE [state |-> "done", cars |-> fetch_page(p)]]
  /\ UNCHANGED <<spider, brand, location, last_page, site, all_cars, result_json, kpc>>
  /\ UNCHANGED merge_vars

\* as_completed yields a finished future: all_cars.extend(cars); the main
\* thread of autotrader_spider.py (lines 435-437) has the same statements
Collect(p) ==
  /\ kpc = "crawl"
  /\ futures[p].state = "done"
  /\ futures' = [futures EXCEPT ![p].state = "collected"]
  /\ all_cars' = all_cars \o futures[p].cars
  /\ UNCHANGED <<spider, brand, location, last_page, site, result_json, kpc>>
  /\ UNCHANGED merge_vars

\* as_completed yields a future whose task raised: future.result() raises
\* in the main thread and the script ends without a result file
CollectFailed(p) ==
  /\ kpc = "crawl"
  /\ futures[p].state = "failed"
  /\ kpc' = "raised"
  /\ UNCHANGED <<spider, brand, location, last_page, site, futures, all_cars, result_json>>
  /\ UNCHANGED merge_vars

\* lines 530-541: every future was yielded
SaveResults ==
  /\ spider = "kijiji"
  /\ kpc = "crawl"
  /\ \A p \in Pages : futures[p].state = "collected"
  /\ result_json' = Dict(<< Pair("brand", Str(brand)),
                            Pair("location", Str(location)),
                            Pair("total_number", Num(Len(all_cars))),
                            Pair("total_pages", Num(last_page)),
                            Pair("source", Str(SOURCE_KIJIJI)),
                            Pair("listings", List(all_cars)) >>)
  /\ kpc' = "saved"
  /\ UNCHANGED <<spider, brand, location, last_page, site, futures, all_cars>>
  /\ UNCHANGED merge_vars

NextKijiji ==
  \/ \E p \in Pages : FetchPage(p)
  \/ \E p \in Pages : Collect(p)
  \/ \E p \in Pages : CollectFailed(p)
  \/ SaveResults

\* ---------------------------------------------------------- spider inputs
NoCard == [title |-> None, href |-> None, price |-> None, deal |-> None,
           loc |-> None, kms |-> None, details |-> <<>>]

RECURSIVE Concat(_)
Concat(ws) == IF ws = <<>> THEN <<>> ELSE Head(ws) \o Concat(Tail(ws))

\* what a title starts with
YearPrefixes == {<<>>, <<"2", "0", "2", "0", " ">>, <<"2", "0", "2", "0">>, <<"2", "0", "2", " ">>}
\* the pieces the titles of the brands are made of
MiniPieces == {<<"C", "o", "o", "p", "e", "r">>, <<" ", "C", "o", "o", "p", "e", "r">>, <<"S">>, <<" ", "S">>, <<" ", "H", "a", "r", "d", "t", "o", "p">>, <<" ", "|">>}
FiatPieces == {<<"5", "0", "0">>, <<" ", "5", "0", "0">>, <<"X">>, <<"0">>, <<" ", "S", "p", "o", "r", "t">>, <<" ", "|">>}

PiecesOf(b) == IF b = FIAT THEN FiatPieces ELSE MiniPieces

DetailTexts ==
  {<<"A", "u", "t", "o", "m", "a", "t", "i", "c">>,
   <<"M", "a", "n", "u", "a", "l">>,
   <<"S", "e", "m", "i", "-", "A", "u", "t", "o", "m", "a", "t", "i", "c">>,
   <<"G", "a", "s">>,
   <<"D", "i", "e", "s", "e", "l">>,
   <<"1", ",", "2", "0", "0", " ", "k", "m">>,
   <<"N", "e", "w">>}
DealTexts ==
  {None, Str(<<"G", "r", "e", "a", "t", " ", "p", "r", "i", "c", "e">>),
   Str(<<"G", "o", "o", "d", " ", "d", "e", "a", "l">>),
   Str(<<"F", "a", "i", "r">>),
   Str(<<"O", "v", "e", "r", "p", "r", "i", "c", "e", "d">>),
   Str(<<"N", "e", "w">>),
   Str(<<>>)}
PriceTexts == {None, Str(<<"$", "2", "5", ",", "0", "0", "0">>), Str(<<"C", "a", "l", "l">>), Str(<<>>)}
Hrefs == {None, Str(<<"/", "v", "-", "1">>), Str(<<"h", "t", "t", "p", ":", "/", "/", "x">>)}
TITLE == Str(<<"2", "0", "2", "0", " ", "C", "o", "o", "p", "e", "r", " ", "S", " ", "|", " ", "N", "e", "w">>)

\* the cards of the pages of a crawl
CrawlCards ==
  {[NoCard EXCEPT !.title = TITLE, !.href = Str(<<"/", "v", "-", "1">>)],
   [NoCard EXCEPT !.price = Str(<<"$", "5">>)]}

Answer(cards) == [timeout |-> FALSE, status_code |-> 200, cards |-> cards]

\* what a page can answer: no answer in time, an error status, or cards
PageAnswers ==
  {[timeout |-> TRUE, status_code |-> 0, cards |-> <<>>],
   [timeout |-> FALSE, status_code |-> 404, cards |-> <<>>]}
  \cup {Answer(cards) : cards \in SeqsUpTo(CrawlCards, MaxCards)}

\* a crawl of one page that shows one card
OneCard(li) == last_page = 1 /\ site = <<Answer(<<li>>)>>

InitKijiji ==
  /\ \/ /\ brand = MINI
        /\ \E n \in 1..MaxPages : last_page = n /\ site \in [1..n -> PageAnswers]
     \/ \E b \in {MINI, FIAT, SMART} : \E y \in YearPrefixes :
          \E ws \in SeqsUpTo(PiecesOf(b), MaxWords) :
            /\ brand = b
            /\ OneCard([NoCard EXCEPT !.title = Str(y \o Concat(ws))])
     \/ /\ brand = MINI
        /\ \E ds \in SeqsUpTo(DetailTexts, MaxDetails) : \E deal \in DealTexts :
             OneCard([NoCard EXCEPT !.details = ds, !.deal = deal])
     \/ /\ brand = MINI
        /\ \E t \in {None, TITLE} : \E h \in Hrefs : \E pr \in PriceTexts :
             OneCard([NoCard EXCEPT !.title = t, !.href = h, !.price = pr,
                                    !.loc = Str(<<" ", "T", "o", "r", "o", "n", "t", "o">>)])
  /\ spider = "kijiji"
  /\ location = <<"c", "a", "n", "a", "d", "a">>
  /\ futures = [p \in 1..last_page |-> [state |-> "running", cars |-> <<>>]]
  /\ all_cars = <<>>
  /\ result_json = None
  /\ kpc = "crawl"
  /\ a = FileOf(<<>>)
  /\ k = FileOf(<<>>)
  /\ pc = "idle"
  /\ listings = <<>>
  /\ idx = 0
  /\ seen_links = {}
  /\ seen_fp = {}
  /\ merged = <<>>
  /\ out_obj = None

SpecKijiji == InitKijiji /\ [][NextKijiji]_vars

\* ------------------------------------------------------ the title parser
\* a crawl of one page with one card is over; TheCar is its listing
OneCarSaved == kpc = "saved" /\ Len(all_cars) = 1 /\ last_page = 1
TheCar == all_cars[1]
HasTitle == OneCarSaved /\ Get(TheCar, "title").t = "str"

\* the entries of the brand that pass the boundary test in the working text
\* of title t, by their position in the list
Passing(t) ==
  {i \in 1..Len(ModelsOf(brand)) :
     SearchWord(str_lower(ModelsOf(brand)[i]), WorkingText(t))}

\* C15: the model of a listing is an entry that passes the boundary test in
\* the working text of its title and that no passing entry is longer than;
\* it is null when no entry passes
C15_LongestMatchWins ==
  HasTitle =>
    LET ms == ModelsOf(brand)
        pass == Passing(Get(TheCar, "title").s)
        model == Get(TheCar, "model")
    IN IF pass = {} THEN model = None
       ELSE \E i \in pass : /\ model = Str(ms[i])
                            /\ \A j \in pass : Len(ms[j]) <= Len(ms[i])

\* "Cooper S" and "Cooper" both pass in "2020 Cooper S Hardtop" and the
\* listing has model "Cooper S"
C15_Witness ==
  /\ HasTitle
  /\ brand = MINI
  /\ Get(TheCar, "title") = Str(<<"2", "0", "2", "0", " ", "C", "o", "o", "p", "e", "r", " ", "S", " ", "H", "a", "r", "d", "t", "o", "p">>)
  /\ Cardinality(Passing(Get(TheCar, "title").s)) = 2
  /\ Get(TheCar, "model") = Str(<<"C", "o", "o", "p", "e", "r", " ", "S">>)

IsAlnum(c) == IsLetter(c) \/ IsDigit(c)

\* c occurs in s at offset i as a whole token: an alphanumeric end of the
\* occurrence has no alphanumeric neighbour
WholeTokenAt(c, s, i) ==
  /\ SubSeq(s, i + 1, i + Len(c)) = c
  /\ ~(IsAlnum(c[1]) /\ i >= 1 /\ IsAlnum(s[i]))
  /\ ~(IsAlnum(c[Len(c)]) /\ i + Len(c) < Len(s) /\ IsAlnum(s[i + Len(c) + 1]))

\* C16: the model of a listing occurs in the working text of its title as a
\* whole token, not only inside a longer alphanumeric token
C16_WholeTokenOnly ==
  (HasTitle /\ Get(TheCar, "model") # None) =>
    LET c == str_lower(Get(TheCar, "model").s)
        s == WorkingText(Get(TheCar, "title").s)
    IN \E i \in 0..(Len(s) - Len(c)) : WholeTokenAt(c, s, i)

\* the entry "500" occurs in "2020 5000 Sport" inside the token 5000 only,
\* and the listing has no model
C16_Witness ==
  /\ HasTitle
  /\ brand = FIAT
  /\ Get(TheCar, "title") = Str(<<"2", "0", "2", "0", " ", "5", "0", "0", "0", " ", "S", "p", "o", "r", "t">>)
  /\ Contains(<<"5", "0", "0">>, WorkingText(Get(TheCar, "title").s))
  /\ Get(TheCar, "model") = None

\* C20: transmission, fuel and deal_tag of every listing of the result are
\* strings of their vocabulary or "Unknown", never null or another text
C20_ControlledVocabulary ==
  kpc = "saved" =>
    \A i \in 1..Len(all_cars) :
      /\ Get(all_cars[i], "transmission")
           \in {Str(str_capitalize(AUTOMATIC)), Str(str_capitalize(MANUAL)), Str(UNKNOWN)}
      /\ Get(all_cars[i], "fuel")
           \in {Str(str_capitalize(f)) : f \in FuelTypes} \cup {Str(UNKNOWN)}
      /\ Get(all_cars[i], "deal_tag")
           \in {Str(GREAT), Str(GOOD), Str(FAIR), Str(OVERPRICED), Str(UNKNOWN)}

\* ------------------------------------------------- what the merge loses
\* C22: every record the merge drops has the non-null link or the
\* fingerprint of a record of the merged output
C22_NoDistinctListingLost ==
  pc = "done" =>
    \A i \in 1..Len(listings) :
      ~InMerged(listings[i]) =>
        \E m \in 1..Len(merged) :
          \/ Truthy(LinkOf(listings[i])) /\ LinkOf(merged[m]) = LinkOf(listings[i])
          \/ fingerprint(merged[m]) = fingerprint(listings[i])

\* the records merge_files builds when the two files change places
SwappedListings ==
  BuildAll(ListingsOf(k), SourceLabel(k, AUTOTRADER)).val
    \o BuildAll(ListingsOf(a), SourceLabel(a, KIJIJI)).val

\* C23: the merge of A followed by B keeps as many records as the merge of
\* B followed by A
C23_CountOrderIndependent ==
  pc = "done" => Len(merged) = Len(DedupeAll(EmptyDedupe, SwappedListings).merged)

\* the title as fingerprint cleans it
CleanedTitleOf(rec) == CleanTitle(str_lower(PyStr(PyOr(Get(rec, "title"), Str(<<>>)))))

\* C24: two records with one fingerprint have the same cleaned title, the
\* same year and the same price; null and 0 are different values
C24_FingerprintInjective ==
  InLoop =>
    \A i, j \in 1..Len(listings) :
      fingerprint(listings[i]) = fingerprint(listings[j]) =>
        /\ CleanedTitleOf(listings[i]) = CleanedTitleOf(listings[j])
        /\ Get(listings[i], "year") = Get(listings[j], "year")
        /\ Get(listings[i], "price") = Get(listings[j], "price")

\* C26: the builder applied to a record it built, with the record's source
\* label, returns that record
C26_BuilderIdempotent ==
  Built =>
    \A i \in 1..Len(listings) :
      normalize_listing(listings[i], Get(listings[i], "source")) = Returned(listings[i])

\* the seen-sets mirror the kept records
SeenSetsMirror ==
  InLoop =>
    /\ seen_fp = {fingerprint(merged[m]) : m \in 1..Len(merged)}
    /\ Cardinality(seen_fp) = Len(merged)
    /\ \A m \in 1..Len(merged) :
         LinkOf(merged[m]) # None => LinkOf(merged[m]) \in seen_links

\* a step of the loop removes nothing from the seen-sets
SeenSetsGrow ==
  pc = "dedupe" => (seen_fp \subseteq seen_fp' /\ seen_links \subseteq seen_links')

\* C27: at every step of the loop seen_fp is the set of the fingerprints of
\* merged and as large as merged is long, seen_links holds the non-null link
\* of every record of merged, and both sets only grow
C27_SeenSetsMirrorKept == []SeenSetsMirror /\ [][SeenSetsGrow]_vars

\* the loop kept a linked record and a link-less one and dropped a third
C27_Witness ==
  /\ pc = "done"
  /\ Len(listings) = 3
  /\ Len(merged) = 2
  /\ Cardinality(seen_links) = 1
  /\ \E m \in 1..2 : LinkOf(merged[m]) = None

\* =================================================== autotrader_spider.py
\* The AutoTrader spider: its own parse_title, normalize_listing and
\* fetch_page, and the same concurrent crawl.  Its KNOWN_MODELS is equal to
\* the Kijiji spider's.  Of a card it reads the title, the price, the kms
\* text, the proximity text (loc) and the href of the inner link.
rcp == 100

\* re.match(r"^(\d{4})", t)
FourDigits(t) == Len(t) >= 4 /\ \A i \in 1..4 : IsDigit(t[i])

\* parse_title(title, brand) of the AutoTrader spider
autotrader_parse_title(title, b) ==
  IF ~Truthy(title) THEN [year |-> None, model |-> None]
  ELSE LET t == title.s
           title_lower == str_lower(t)
           hits == SelectSeq(ModelsOf(b),
                             LAMBDA m : Contains(str_lower(m), title_lower))
       IN [year  |-> IF FourDigits(t) THEN Num(DigitsValue(SubSeq(t, 1, 4))) ELSE None,
           model |-> IF hits = <<>> THEN None ELSE Str(hits[1])]

\* normalize_listing(listing) of the AutoTrader spider
autotrader_normalize_listing(listing) ==
  LET year == Get(listing, "year")
  IN << Pair("title", Get(listing, "title")),
        Pair("price", DigitsOf(Get(listing, "price"))),
        Pair("mileage_km", DigitsOf(Get(listing, "mileage"))),
        Pair("year", IF Truthy(year) /\ AllDigits(PyStr(year))
                     THEN Num(DigitsValue(PyStr(year))) ELSE None),
        Pair("model", Get(listing, "model")),
        Pair("province_city", Get(listing, "province_city")),
        Pair("link", Get(listing, "link")) >>

\* s.split("/")
RECURSIVE SplitSlash(_, _)
SplitSlash(s, cur) ==
  IF s = <<>> THEN <<cur>>
  ELSE IF Head(s) = "/"
       THEN <<cur>> \o SplitSlash(Tail(s), <<>>)
       ELSE SplitSlash(Tail(s), Append(cur, Head(s)))

\* urllib.parse.unquote(s), for the escape %20
RECURSIVE Unquote(_)
Unquote(s) ==
  IF s = <<>> THEN <<>>
  ELSE IF Len(s) >= 3 /\ SubSeq(s, 1, 3) = <<"%", "2", "0">>
       THEN <<" ">> \o Unquote(SubSeq(s, 4, Len(s)))
       ELSE <<Head(s)>> \o Unquote(Tail(s))

AUTOTRADER_CA == <<"h", "t", "t", "p", "s", ":", "/", "/", "w", "w", "w", ".", "a", "u", "t", "o", "t", "r", "a", "d", "e", "r", ".", "c", "a">>
SOURCE_AUTOTRADER == <<"a", "u", "t", "o", "t", "r", "a", "d", "e", "r", ".", "c", "a">>

\* province_city of a card: the proximity text, or city and province from
\* the href of the inner link
ProvinceCityOf(li) ==
  LET text == GetText(li.loc)
  IN IF Truthy(text) THEN text
     ELSE IF li.href = None THEN text
     ELSE LET parts == SplitSlash(li.href.s, <<>>)
              n == Len(parts)
          IN IF n >= 6
             THEN Str(Unquote(parts[n - 3]) \o <<",", " ">> \o Unquote(parts[n - 2]))
             ELSE text

\* the body of "for li in soup.select('div.result-item')" of fetch_page
AutotraderCarOf(li, b) ==
  LET title == GetText(li.title)
      ym == autotrader_parse_title(title, b)
      raw_car ==
        << Pair("title", title),
           Pair("price", GetText(li.price)),
           Pair("mileage", GetText(li.kms)),
           Pair("year", ym.year),
           Pair("model", ym.model),
           Pair("province_city", ProvinceCityOf(li)),
           Pair("link", IF li.href # None THEN Str(AUTOTRADER_CA \o li.href.s)
                        ELSE None) >>
  IN autotrader_normalize_listing(raw_car)

\* the cars fetch_page(p) of the AutoTrader spider returns
autotrader_fetch_page(p) ==
  IF site[p].status_code # 200 THEN <<>>
  ELSE [i \in 1..Len(site[p].cards) |-> AutotraderCarOf(site[p].cards[i], brand)]

\* ceil(total_results / rcp) if total_results else 1
NumPages(total_results) ==
  IF total_results = 0 THEN 1 ELSE (total_results + rcp - 1) \div rcp

\* a worker thread of the AutoTrader spider runs fetch_page(p) to its end
FetchPageAutotrader(p) ==
  /\ spider = "autotrader"
  /\ kpc \in {"crawl", "raised"}
  /\ futures[p].state = "running"
  /\ p <= Cardinality({q \in Pages : futures[q].state # "running"}) + number_of_workers
  /\ futures' = [futures EXCEPT ![p] =
                   IF site[p].timeout THEN [state |-> "failed", cars |-> <<>>]
                   ELSE [state |-> "done", cars |-> autotrader_fetch_page(p)]]
  /\ UNCHANGED <<spider, brand, location, last_page, site, all_cars, result_json, kpc>>
  /\ UNCHANGED merge_vars

\* SaveResultsAutotrader that does not wait for every page: the result is
\* written as soon as one future was yielded
SaveResultsAutotraderEarly ==
  /\ spider = "autotrader"
  /\ kpc = "crawl"
  /\ \E p \in Pages : futures[p].state = "collected"
  /\ result_json' = Dict(<< Pair("brand", Str(brand)),
                            Pair("location", Str(location)),
                            Pair("total_number", Num(Len(all_cars))),
                            Pair("total_pages", Num(last_page)),
                            Pair("source", Str(SOURCE_AUTOTRADER)),
                            Pair("listings", List(all_cars)) >>)
  /\ kpc' = "saved"
  /\ UNCHANGED <<spider, brand, location, last_page, site, futures, all_cars>>
  /\ UNCHANGED merge_vars

\* lines 438-448 of the AutoTrader spider: every future was yielded
SaveResultsAutotrader ==
  /\ spider = "autotrader"
  /\ kpc = "crawl"
  /\ \A p \in Pages : futures[p].state = "collected"
  /\ result_json' = Dict(<< Pair("brand", Str(brand)),
                            Pair("location", Str(location)),
                            Pair("total_number", Num(Len(all_cars))),
                            Pair("total_pages", Num(last_page)),
                            Pair("source", Str(SOURCE_AUTOTRADER)),
                            Pair("listings", List(all_cars)) >>)
  /\ kpc' = "saved"
  /\ UNCHANGED <<spider, brand, location, last_page, site, futures, all_cars>>
  /\ UNCHANGED merge_vars

NextSpiders ==
  \/ \E p \in Pages : FetchPage(p)
  \/ \E p \in Pages : FetchPageAutotrader(p)
  \/ \E p \in Pages : Collect(p)
  \/ \E p \in Pages : CollectFailed(p)
  \/ SaveResults
  \/ SaveResultsAutotrader

\* the counts the first request can show: up to MaxPages pages
TotalResults == {(rcp \div 2) * i : i \in 0..(2 * MaxPages)}

AutotraderHrefs ==
  {None, Str(<<"/", "a", "/", "5">>),
   Str(<<"/", "a", "/", "b", "/", "c", "/", "t", "%", "2", "0", "o", "/", "o", "n", "/", "5", "/">>)}
ProximityTexts == {None, Str(<<>>), Str(<<"T", "o", "r", "o", "n", "t", "o", ",", " ", "O", "N", " ">>)}
KmsTexts == {None, Str(<<"1", ",", "2", "0", "0", " ", "k", "m">>)}

InitAutotrader ==
  /\ spider = "autotrader"
  /\ \/ /\ brand = MINI
        /\ \E total_results \in TotalResults :
             /\ last_page = NumPages(total_results)
             /\ site \in [1..last_page -> PageAnswers]
     \/ \E b \in {MINI, FIAT, SMART} : \E y \in YearPrefixes :
          \E ws \in SeqsUpTo(PiecesOf(b), MaxWords) :
            /\ brand = b
            /\ OneCard([NoCard EXCEPT !.title = Str(y \o Concat(ws))])
     \/ /\ brand = MINI
        /\ \E h \in AutotraderHrefs : \E loc \in ProximityTexts :
             \E pr \in PriceTexts : \E km \in KmsTexts :
               OneCard([NoCard EXCEPT !.title = TITLE, !.href = h, !.loc = loc,
                                      !.price = pr, !.kms = km])
  /\ location = <<"c", "a", "n", "a", "d", "a">>
  /\ futures = [p \in 1..last_page |-> [state |-> "running", cars |-> <<>>]]
  /\ all_cars = <<>>
  /\ result_json = None
  /\ kpc = "crawl"
  /\ a = FileOf(<<>>)
  /\ k = FileOf(<<>>)
  /\ pc = "idle"
  /\ listings = <<>>
  /\ idx = 0
  /\ seen_links = {}
  /\ seen_fp = {}
  /\ merged = <<>>
  /\ out_obj = None

InitSpiders == InitKijiji \/ InitAutotrader

SpecSpiders == InitSpiders /\ [][NextSpiders]_vars

\* -------------------------------------------------------------- the crawls
\* the cars page p shows to the spider that runs
PageCars(p) == IF spider = "kijiji" THEN fetch_page(p) ELSE autotrader_fetch_page(p)

\* the pages whose future the main thread has been through
Collected == {p \in Pages : futures[p].state = "collected"}

\* all_cars is the cars of the collected pages, each page once, in some order
EachPageOnce ==
  \E order \in [1..Cardinality(Collected) -> Collected] :
    /\ \A i, j \in 1..Cardinality(Collected) : i # j => order[i] # order[j]
    /\ all_cars = Concat([i \in 1..Cardinality(Collected) |-> PageCars(order[i])])

\* a result is written only when the task of every page is over and was
\* collected, and it holds all_cars and its length
CrawlAssembled ==
  /\ spider # "none" => EachPageOnce
  /\ result_json # None =>
       /\ \A p \in Pages : futures[p].state = "collected"
       /\ Get(result_json.d, "listings") = List(all_cars)
       /\ Get(result_json.d, "total_number") = Num(Len(all_cars))

\* all_cars changes only when the main thread collects a finished future
OnlyCollectAppends ==
  all_cars' # all_cars =>
    \E p \in Pages : /\ futures[p].state = "done"
                     /\ futures'[p].state = "collected"
                     /\ all_cars' = all_cars \o futures[p].cars

\* C21: in both spiders, whatever the page count and the order the tasks
\* end in, the result is written only after every page's task ended, holds
\* each page's cars once and their number as total_number, and only the
\* main thread's collecting step changes all_cars
C21_AllPagesOnce == []CrawlAssembled /\ [][OnlyCollectAppends]_vars

\* the AutoTrader spider wrote the cars of two pages, page 2 before page 1
C21_Witness ==
  /\ spider = "autotrader"
  /\ kpc = "saved"
  /\ last_page = 2
  /\ futures[1].cars # <<>>
  /\ futures[2].cars # futures[1].cars
  /\ Get(result_json.d, "listings") = List(futures[2].cars \o futures[1].cars)

\* C25: for a title the AutoTrader spider gives a listing the model and
\* the year the Kijiji spider gives it
C25_SameTitleParser ==
  (HasTitle /\ spider = "autotrader") =>
    /\ Get(TheCar, "model") = Get(CarOf(site[1].cards[1], brand), "model")
    /\ Get(TheCar, "year") = Get(CarOf(site[1].cards[1], brand), "year")

====
